---- MODULE Spec2Model ----
(***************************************************************************)
(* State-machine model of the configure tool's workflow engine             *)
(* (src/src/configure.rs): update_configuration, setup_configuration and   *)
(* apply_configuration, run against one secrets repository clone, one      *)
(* persisted ConfigurationFile and the project's .enc / decrypted files.   *)
(*                                                                         *)
(* Every call of the workflow into the git gateway, the file system, the   *)
(* key store or the prompter is one atomic step of the run that makes it.  *)
(* A call wrapped in expect()/unwrap() may fail; the run then panics on    *)
(* that line and executes nothing after it.                                *)
(*                                                                         *)
(* Commit hashes are the naturals 1..MaxCommit, the empty string of a hash *)
(* field is EmptyHash; branch and project names are strings, "" is unset.  *)
(***************************************************************************)
EXTENDS Integers, Sequences, FiniteSets, TLC

\* ------------------------------------------------------------------ bounds
\* Number of commits of the secrets repository.
MaxCommit == 3

\* Most candidates the loop of prompt_to_add_files is followed through.
MaxFiles == 2

\* ---------------------------------------------------------- program values
\* "" in the pinned_hash field (ConfigurationFile::default).
EmptyHash == 0

\* Size of the byte alphabet the cipher works in.
Modulus == 256

Procs == {1, 2}

Commits == 1..MaxCommit

Branches == {"trunk", "develop"}

ProjectNames == {"app"}

\* The File values the runs work with: file (source) and destination.
FileA == [source |-> "s1", destination |-> "d1"]

FileB == [source |-> "s2", destination |-> "d2"]

FileC == [source |-> "s2", destination |-> "d1"]

Sources == {"s1", "s2"}

Destinations == {"d1", "d2"}

\* Marker of a file that does not exist on disk.
Absent == -1

\* Marker of a project without an entry in keys.json.
NoKey == -1

\* ConfigurationFile::default()
DefaultConfiguration ==
    [project_name |-> "", branch |-> "", pinned_hash |-> EmptyHash,
     files_to_copy |-> << >>]

\* ----------------------------------------------------- ConfigurationFile
\* is_empty, comparing the three strings only.
is_empty_of_strings(c) ==
    /\ c.project_name = DefaultConfiguration.project_name
    /\ c.branch = DefaultConfiguration.branch
    /\ c.pinned_hash = DefaultConfiguration.pinned_hash

\* lines 22-24: equality with the default value, field by field.
is_empty(c) == c = DefaultConfiguration

needs_project_name(c) == c.project_name = ""

needs_branch(c) == c.branch = ""

needs_pinned_hash(c) == c.pinned_hash = EmptyHash

\* ------------------------------------------------ secrets repository model
\* The commit graph: 1 is the root; odd commits form one line of history,
\* even commits another, both starting at the root.
Parent(c) == IF c = 1 THEN 0 ELSE IF c = 2 THEN 1 ELSE c - 2

RECURSIVE Ancestors(_)
\* The commits reachable from c, c included.
Ancestors(c) == IF c \notin Commits THEN {} ELSE {c} \cup Ancestors(Parent(c))

\* The commits a branch can point to.
ChainOf(b) ==
    {c \in Commits : c = 1 \/ (c % 2 = (IF b = "trunk" THEN 1 ELSE 0))}

\* Plaintext of a source file in the working tree checked out at commit c.
SourceIndex(s) == IF s = "s1" THEN 1 ELSE 2

Content(c, s) == 10 * c + SourceIndex(s)

\* hashDistance(older, newer): commits of newer's history missing in older's.
secrets_repo_distance_between(older, newer) ==
    Cardinality(Ancestors(newer) \ Ancestors(older))

\* check_out_branch(name): the clone ends on the local tip of the branch.
check_out_branch(localTips, name) == [branch |-> name, hash |-> localTips[name]]

\* check_out_branch_at_revision(name, hash): exactly that branch and hash.
check_out_branch_at_revision(name, hash) == [branch |-> name, hash |-> hash]

\* latestHashForBranch(branch): the fetched tip of the branch.
get_latest_hash_for_remote_branch(remoteTips, b) == remoteTips[b]

get_secrets_latest_hash(remoteTips, b) == remoteTips[b]

\* syncStatus of the checked-out branch against its remote counterpart.
get_secrets_repo_status(localTips, remoteTips, b) ==
    LET ahead == secrets_repo_distance_between(remoteTips[b], localTips[b])
        behind == secrets_repo_distance_between(localTips[b], remoteTips[b])
    IN  IF ahead > 0 THEN [sync_state |-> "Ahead", distance |-> ahead]
        ELSE IF behind > 0 THEN [sync_state |-> "Behind", distance |-> behind]
        ELSE [sync_state |-> "Synced", distance |-> 0]

\* ------------------------------------------------------------ crypto model
encrypt(plain, key) == (plain + key) % Modulus

decrypt(cipher, key) == (cipher - key + Modulus) % Modulus

\* The keys generate_encryption_key can produce.
Keys == {7, 9}

\* --------------------------------------------------------- file operations
RECURSIVE write_encrypted_files(_, _, _, _, _)
\* write_encrypted_files_for_configuration, stopped after the first n
\* mappings: each mapping's source is read from the working tree at commit
\* hash, encrypted and written to destination + ".enc", in list order.
write_encrypted_files(encFiles, files, hash, key, n) ==
    IF n = 0 THEN encFiles
    ELSE LET before == write_encrypted_files(encFiles, files, hash, key, n - 1)
         IN  [before EXCEPT ![files[n].destination] =
                                encrypt(Content(hash, files[n].source), key)]

\* Position of the first mapping whose .enc file is absent, or
\* Len(files) + 1 when every mapping has one.
first_missing(encFiles, files) ==
    IF \E i \in 1..Len(files) : encFiles[files[i].destination] = Absent
    THEN CHOOSE i \in 1..Len(files) :
            /\ encFiles[files[i].destination] = Absent
            /\ \A j \in 1..(i - 1) : encFiles[files[j].destination] # Absent
    ELSE Len(files) + 1

RECURSIVE decrypt_files(_, _, _, _, _)
\* decrypt_files_for_configuration, stopped after the first n mappings:
\* each mapping's .enc file is decrypted and written to its destination.
decrypt_files(decFiles, encFiles, files, key, n) ==
    IF n = 0 THEN decFiles
    ELSE LET before == decrypt_files(decFiles, encFiles, files, key, n - 1)
         IN  [before EXCEPT ![files[n].destination] =
                                decrypt(encFiles[files[n].destination], key)]

\* ------------------------------------------------------------------ state
VARIABLES
    mode,                \* "single": one run; "sequential": a run starts
                         \* when the one before it has ended; otherwise
                         \* runs interleave call by call
    head,                \* checked-out [branch, hash] of the secrets clone
    local,               \* local tip of every branch of the clone
    remote,              \* remote-tracking tip of every branch
    disk,                \* the persisted ConfigurationFile (.configure)
    enc,                 \* destination -> content of destination.enc
    dec,                 \* destination -> content of the decrypted file
    keys,                \* project name -> key in keys.json
    op,                  \* the command a run executes
    pc,                  \* the line a run is at
    panicked_at,         \* the line a run panicked on, "" if none
    error,               \* the error a run panicked with, "" if none
    loaded,              \* the ConfigurationFile value a run was entered with
    configuration,       \* the ConfigurationFile value a run holds
    starting_branch,     \* update_configuration locals
    starting_ref,
    status,
    distance,
    adopt,               \* answer at the adopt-latest prompt, "none" if not asked
    latest_commit_hash,
    current_branch,      \* configure_file_distance_behind_secrets_repo locals
    current_hash,
    latest_hash,
    events,              \* the effects a run has had, in order
    answers,             \* what the user entered at the prompts for the project
                         \* name, the branch and the files, in order
    queried              \* results of the ConfigurationFile predicates

repoVars == <<head, local, remote>>

projectVars == <<disk, enc, dec, keys>>

updateLocals ==
    <<starting_branch, starting_ref, status, distance, adopt, latest_commit_hash>>

distanceLocals == <<current_branch, current_hash, latest_hash>>

vars ==
    <<mode, head, local, remote, disk, enc, dec, keys, op, pc, panicked_at,
      error, answers, queried, loaded, configuration, starting_branch, starting_ref, status, distance, adopt,
      latest_commit_hash, current_branch, current_hash, latest_hash, events>>

FirstKey == CHOOSE k \in Keys : \A j \in Keys : k <= j

\* Content of a .enc file left by an earlier run: no plaintext of the
\* repository encrypts to it under any key of Keys.
StaleCipher == encrypt(0, 0)

\* The file lists a persisted configuration starts with.
FileLists == {<< >>, <<FileA, FileB>>, <<FileA, FileC>>}

\* The configurations an earlier init can have left on disk: the default
\* one, one with only the project name set, and complete ones whose
\* pinned_hash lies on the history of their branch.
InitialConfigurations ==
    {DefaultConfiguration,
     [DefaultConfiguration EXCEPT !.project_name = "app"]}
    \cup
    {[project_name |-> "app", branch |-> b, pinned_hash |-> h,
      files_to_copy |-> fl] :
        b \in Branches, h \in Commits, fl \in FileLists}

OnBranch(localTips, remoteTips, h, b) ==
    h \in Ancestors(localTips[b]) \cup Ancestors(remoteTips[b])

Init ==
    /\ mode = "single"
    /\ local \in [Branches -> Commits]
    /\ remote \in [Branches -> Commits]
    /\ \A b \in Branches : local[b] \in ChainOf(b) /\ remote[b] \in ChainOf(b)
    /\ head \in [branch : Branches, hash : Commits]
    /\ head.hash \in Ancestors(local[head.branch])
    /\ disk \in InitialConfigurations
    /\ disk.branch # "" => OnBranch(local, remote, disk.pinned_hash, disk.branch)
    /\ keys \in [ProjectNames -> {NoKey, FirstKey}]
    /\ \E stale \in {Absent, StaleCipher} : enc = [d \in Destinations |-> stale]
    /\ dec = [d \in Destinations |-> Absent]
    /\ op = [p \in Procs |-> "none"]
    /\ pc = [p \in Procs |-> "idle"]
    /\ panicked_at = [p \in Procs |-> ""]
    /\ loaded = [p \in Procs |-> DefaultConfiguration]
    /\ configuration = [p \in Procs |-> DefaultConfiguration]
    /\ starting_branch = [p \in Procs |-> ""]
    /\ starting_ref = [p \in Procs |-> EmptyHash]
    /\ status = [p \in Procs |-> "none"]
    /\ distance = [p \in Procs |-> 0]
    /\ adopt = [p \in Procs |-> "none"]
    /\ latest_commit_hash = [p \in Procs |-> EmptyHash]
    /\ current_branch = [p \in Procs |-> ""]
    /\ current_hash = [p \in Procs |-> EmptyHash]
    /\ latest_hash = [p \in Procs |-> EmptyHash]
    /\ events = [p \in Procs |-> << >>]
    /\ error = [p \in Procs |-> ""]
    /\ answers = [p \in Procs |-> << >>]
    /\ queried = [p \in Procs |-> << >>]

\* ---------------------------------------------------------------- helpers
Goto(p, label) == pc' = [pc EXCEPT ![p] = label]

Log(p, e) == events' = [events EXCEPT ![p] = Append(@, e)]

\* One answer of the user: the prompt and up to three values entered.
Answer(prompt, a, b, c) == <<prompt, a, b, c>>

Ask(p, answer) == answers' = [answers EXCEPT ![p] = Append(@, answer)]

Terminated(p) == pc[p] \in {"done", "returned", "panicked"}

\* read_encryption_key: the key of the configuration's project, if any.
read_encryption_key(keyStore, c) ==
    IF c.project_name \in DOMAIN keyStore THEN keyStore[c.project_name] ELSE NoKey

\* ------------------------------------------------------------ entry points
\* configure::update / init / apply: load the persisted configuration and
\* hand it to the workflow.
FirstLine(o) ==
    CASE o = "update" -> "u_branch"
      [] o = "init" -> "i_name"
      [] o = "apply" -> "a_apply"

Commands == {"update", "init", "apply"}

\* Run p is started with command o.
StartCommand(p, o) ==
    /\ pc[p] = "idle"
    /\ \A q \in Procs : q < p => pc[q] # "idle"
    /\ mode = "single" => p = 1
    /\ mode = "sequential" => \A q \in Procs : q < p => Terminated(q)
    /\ op' = [op EXCEPT ![p] = o]
    /\ Goto(p, FirstLine(o))
    /\ configuration' = [configuration EXCEPT ![p] = disk]
    /\ loaded' = [loaded EXCEPT ![p] = disk]
    /\ UNCHANGED <<mode, queried, repoVars, projectVars, panicked_at, error, updateLocals,
                   distanceLocals, events, answers>>

Start(p) == \E o \in Commands : StartCommand(p, o)

\* The lines whose call is wrapped in expect() or unwrap().
Fallible ==
    {"u_branch", "u_ref", "u_fetch", "u_prompt", "u_status", "d_branch",
     "d_hash", "d_checkout", "d_latest", "d_distance", "d_restore",
     "u_latest", "u_forward", "u_save", "u_rollback",
     "i_branch", "i_hash", "i_save", "i_key", "i_genkey"}

\* The call of the current line returns Err: the run panics there.
Panic(p) ==
    /\ pc[p] \in Fallible
    /\ panicked_at' = [panicked_at EXCEPT ![p] = pc[p]]
    /\ error' = [error EXCEPT ![p] = "Err"]
    /\ Goto(p, "panicked")
    /\ UNCHANGED <<mode, queried, repoVars, projectVars, op, loaded, configuration,
                   updateLocals, distanceLocals, events, answers>>

\* ----------------------------------------------------- update_configuration
\* line 132: starting_branch = get_current_secrets_branch()
CaptureStartingBranch(p) ==
    /\ pc[p] = "u_branch"
    /\ starting_branch' = [starting_branch EXCEPT ![p] = head.branch]
    /\ Goto(p, "u_ref")
    /\ UNCHANGED <<mode, queried, repoVars, projectVars, op, loaded, panicked_at, error, configuration,
                   starting_ref, status, distance, adopt, latest_commit_hash,
                   distanceLocals, events, answers>>

\* line 134: starting_ref = get_secrets_current_hash()
CaptureStartingRef(p) ==
    /\ pc[p] = "u_ref"
    /\ starting_ref' = [starting_ref EXCEPT ![p] = head.hash]
    /\ Goto(p, "u_fetch")
    /\ UNCHANGED <<mode, queried, repoVars, projectVars, op, loaded, panicked_at, error, configuration,
                   starting_branch, status, distance, adopt, latest_commit_hash,
                   distanceLocals, events, answers>>

\* line 147: fetch_secrets_latest_remote_data(): the remote-tracking tips
\* move forward to whatever the server has; nothing is checked out.
FetchLatest(p) ==
    /\ pc[p] = "u_fetch"
    /\ \E fetched \in [Branches -> Commits] :
          /\ \A b \in Branches :
                fetched[b] \in ChainOf(b) /\ remote[b] \in Ancestors(fetched[b])
          /\ remote' = fetched
    /\ Log(p, "fetch")
    /\ Goto(p, "u_prompt")
    /\ UNCHANGED <<mode, queried, head, local, projectVars, op, loaded, panicked_at, error,
                   configuration, updateLocals, distanceLocals, answers>>

\* PromptForBranch, writing the configuration to disk as soon as the branch
\* is selected.
PromptForBranchPersisting(p) ==
    /\ pc[p] \in {"u_prompt", "i_branch"}
    /\ \E selected_branch \in Branches :
          /\ configuration' = [configuration EXCEPT ![p].branch = selected_branch]
          /\ Ask(p, Answer("branch", selected_branch, "", ""))
          /\ disk' = [configuration[p] EXCEPT !.branch = selected_branch]
    /\ Goto(p, IF pc[p] = "u_prompt" THEN "u_status" ELSE "i_hash")
    /\ UNCHANGED <<mode, queried, repoVars, enc, dec, keys, op, loaded, panicked_at, error,
                   updateLocals, distanceLocals, events>>

\* prompt_for_branch, returning a fresh configuration that carries the
\* selected branch and the pinned hash only.
prompt_for_branch_rebuilding(c, force, selected_branch) ==
    IF ~needs_branch(c) /\ ~force THEN c
    ELSE [DefaultConfiguration EXCEPT !.branch = selected_branch,
                                      !.pinned_hash = c.pinned_hash]

\* lines 281-307: prompt_for_branch(configuration, force) with the branch
\* the user selects.
prompt_for_branch(c, force, selected_branch) ==
    IF ~needs_branch(c) /\ ~force THEN c
    ELSE [c EXCEPT !.branch = selected_branch]

\* line 154 (update) and line 249 (init): configuration =
\* prompt_for_branch(configuration, true)
PromptForBranch(p) ==
    /\ pc[p] \in {"u_prompt", "i_branch"}
    /\ \E selected_branch \in Branches :
          /\ configuration' = [configuration EXCEPT
                                  ![p] = prompt_for_branch(@, TRUE, selected_branch)]
          /\ Ask(p, Answer("branch", selected_branch, "", ""))
    /\ Goto(p, IF pc[p] = "u_prompt" THEN "u_status" ELSE "i_hash")
    /\ UNCHANGED <<mode, queried, repoVars, projectVars, op, loaded, panicked_at, error, updateLocals,
                   distanceLocals, events>>

\* line 160: status = get_secrets_repo_status()
GetStatus(p) ==
    /\ pc[p] = "u_status"
    /\ status' = [status EXCEPT
                     ![p] = get_secrets_repo_status(local, remote, head.branch).sync_state]
    /\ Goto(p, "u_continue")
    /\ UNCHANGED <<mode, queried, repoVars, projectVars, op, loaded, panicked_at, error, configuration,
                   starting_branch, starting_ref, distance, adopt,
                   latest_commit_hash, distanceLocals, events, answers>>

\* lines 162-182: should_continue; the run returns when the user declines.
ShouldContinue(p) ==
    /\ pc[p] = "u_continue"
    /\ \E answer \in BOOLEAN :
          LET should_continue ==
                  IF status[p] \in {"Ahead", "Behind"} THEN answer ELSE TRUE
          IN  Goto(p, IF should_continue THEN "d_branch" ELSE "returned")
    /\ UNCHANGED <<mode, queried, repoVars, projectVars, op, loaded, panicked_at, error, configuration,
                   updateLocals, distanceLocals, events, answers>>

\* ------------------------ configure_file_distance_behind_secrets_repo
\* line 378: current_branch = get_current_secrets_branch()
DistanceCurrentBranch(p) ==
    /\ pc[p] = "d_branch"
    /\ current_branch' = [current_branch EXCEPT ![p] = head.branch]
    /\ Goto(p, "d_hash")
    /\ UNCHANGED <<mode, queried, repoVars, projectVars, op, loaded, panicked_at, error, configuration,
                   updateLocals, current_hash, latest_hash, events, answers>>

\* line 382: current_hash = get_secrets_current_hash()
DistanceCurrentHash(p) ==
    /\ pc[p] = "d_hash"
    /\ current_hash' = [current_hash EXCEPT ![p] = head.hash]
    /\ Goto(p, "d_checkout")
    /\ UNCHANGED <<mode, queried, repoVars, projectVars, op, loaded, panicked_at, error, configuration,
                   updateLocals, current_branch, latest_hash, events, answers>>

\* line 386: check_out_branch(branch_name), branch_name being
\* configuration.branch (line 190)
DistanceCheckOut(p) ==
    /\ pc[p] = "d_checkout"
    /\ head' = check_out_branch(local, configuration[p].branch)
    /\ Log(p, "checkout")
    /\ Goto(p, "d_latest")
    /\ UNCHANGED <<mode, queried, local, remote, projectVars, op, loaded, panicked_at, error,
                   configuration, updateLocals, distanceLocals, answers>>

\* line 388: latest_hash = get_secrets_current_hash().unwrap()
DistanceLatestHash(p) ==
    /\ pc[p] = "d_latest"
    /\ latest_hash' = [latest_hash EXCEPT ![p] = head.hash]
    /\ Goto(p, "d_distance")
    /\ UNCHANGED <<mode, queried, repoVars, projectVars, op, loaded, panicked_at, error, configuration,
                   updateLocals, current_branch, current_hash, events, answers>>

\* DistanceBetween, with the two hashes passed in the other order.
DistanceBetweenSwapped(p) ==
    /\ pc[p] = "d_distance"
    /\ configuration[p].pinned_hash \in Commits
    /\ distance' = [distance EXCEPT
                       ![p] = secrets_repo_distance_between(
                                  latest_hash[p], configuration[p].pinned_hash)]
    /\ Goto(p, "d_restore")
    /\ UNCHANGED <<mode, queried, repoVars, projectVars, op, loaded,
                   panicked_at, error, configuration, starting_branch,
                   starting_ref, status, adopt, latest_commit_hash,
                   distanceLocals, events, answers>>

\* line 389: distance = secrets_repo_distance_between(pinned_hash,
\* latest_hash).unwrap(); an empty pinned_hash names no commit, the call
\* can then only fail.
DistanceBetween(p) ==
    /\ pc[p] = "d_distance"
    /\ configuration[p].pinned_hash \in Commits
    /\ distance' = [distance EXCEPT
                       ![p] = secrets_repo_distance_between(
                                  configuration[p].pinned_hash, latest_hash[p])]
    /\ Goto(p, "d_restore")
    /\ UNCHANGED <<mode, queried, repoVars, projectVars, op, loaded, panicked_at, error, configuration,
                   starting_branch, starting_ref, status, adopt,
                   latest_commit_hash, distanceLocals, events, answers>>

\* DistanceRestore, going back to the branch but not to the hash.
DistanceRestoreToTip(p) ==
    /\ pc[p] = "d_restore"
    /\ head' = check_out_branch(local, current_branch[p])
    /\ Log(p, "restore")
    /\ Goto(p, "u_confirm")
    /\ UNCHANGED <<mode, queried, local, remote, projectVars, op, loaded, panicked_at, error,
                   configuration, updateLocals, distanceLocals, answers>>

\* line 392: check_out_branch_at_revision(current_branch, current_hash)
DistanceRestore(p) ==
    /\ pc[p] = "d_restore"
    /\ head' = check_out_branch_at_revision(current_branch[p], current_hash[p])
    /\ Log(p, "restore")
    /\ Goto(p, "u_confirm")
    /\ UNCHANGED <<mode, queried, local, remote, projectVars, op, loaded, panicked_at, error,
                   configuration, updateLocals, distanceLocals, answers>>

\* --------------------------------------- update_configuration, continued
\* lines 191-198: if distance > 0 the user is asked whether to use the
\* latest secrets.
ConfirmLatest(p) ==
    /\ pc[p] = "u_confirm"
    /\ IF distance[p] > 0
       THEN \E answer \in BOOLEAN :
               /\ adopt' = [adopt EXCEPT ![p] = IF answer THEN "yes" ELSE "no"]
               /\ Goto(p, IF answer THEN "u_latest" ELSE "u_save")
       ELSE /\ adopt' = adopt
            /\ Goto(p, "u_save")
    /\ UNCHANGED <<mode, queried, repoVars, projectVars, op, loaded, panicked_at, error, configuration,
                   starting_branch, starting_ref, status, distance,
                   latest_commit_hash, distanceLocals, events, answers>>

\* line 199: latest_commit_hash = get_latest_hash_for_remote_branch(branch)
GetLatestCommitHash(p) ==
    /\ pc[p] = "u_latest"
    /\ latest_commit_hash' =
          [latest_commit_hash EXCEPT
              ![p] = get_latest_hash_for_remote_branch(remote, configuration[p].branch)]
    /\ Goto(p, "u_forward")
    /\ UNCHANGED <<mode, queried, repoVars, projectVars, op, loaded, panicked_at, error, configuration,
                   starting_branch, starting_ref, status, distance, adopt,
                   distanceLocals, events, answers>>

\* CheckOutLatest, pinning the latest hash without checking it out.
PinLatestWithoutCheckOut(p) ==
    /\ pc[p] = "u_forward"
    /\ configuration' = [configuration EXCEPT
                            ![p].pinned_hash = latest_commit_hash[p]]
    /\ Log(p, "forward")
    /\ Goto(p, "u_save")
    /\ UNCHANGED <<mode, queried, repoVars, projectVars, op, loaded, panicked_at, error,
                   updateLocals, distanceLocals, answers>>

\* lines 207-209: check_out_branch_at_revision(branch, latest_commit_hash);
\* configuration.pinned_hash = latest_commit_hash
CheckOutLatest(p) ==
    /\ pc[p] = "u_forward"
    /\ head' = check_out_branch_at_revision(configuration[p].branch,
                                            latest_commit_hash[p])
    /\ configuration' = [configuration EXCEPT
                            ![p].pinned_hash = latest_commit_hash[p]]
    /\ Log(p, "forward")
    /\ Goto(p, "u_save")
    /\ UNCHANGED <<mode, queried, local, remote, projectVars, op, loaded, panicked_at, error,
                   updateLocals, distanceLocals, answers>>

\* line 216: save_configuration(&configuration)
SaveConfiguration(p) ==
    /\ pc[p] = "u_save"
    /\ disk' = configuration[p]
    /\ Log(p, "save")
    /\ Goto(p, "u_encrypt")
    /\ UNCHANGED <<mode, queried, repoVars, enc, dec, keys, op, loaded, panicked_at, error,
                   configuration, updateLocals, distanceLocals, answers>>

\* WriteEncryptedFiles, followed by the apply step instead of the rollback.
WriteEncryptedFilesThenApply(p) ==
    /\ pc[p] = "u_encrypt"
    /\ read_encryption_key(keys, configuration[p]) # NoKey
    /\ enc' = write_encrypted_files(enc, configuration[p].files_to_copy,
                                    head.hash,
                                    read_encryption_key(keys, configuration[p]),
                                    Len(configuration[p].files_to_copy))
    /\ Log(p, "encrypt")
    /\ Goto(p, "u_apply")
    /\ UNCHANGED <<mode, queried, repoVars, disk, dec, keys, op, loaded, panicked_at, error,
                   configuration, updateLocals, distanceLocals, answers>>

\* line 221: write_encrypted_files_for_configuration(&configuration): every
\* mapping's source is read from the working tree as it is checked out.
WriteEncryptedFiles(p) ==
    /\ pc[p] = "u_encrypt"
    /\ read_encryption_key(keys, configuration[p]) # NoKey
    /\ enc' = write_encrypted_files(enc, configuration[p].files_to_copy,
                                    head.hash,
                                    read_encryption_key(keys, configuration[p]),
                                    Len(configuration[p].files_to_copy))
    /\ Log(p, "encrypt")
    /\ Goto(p, "u_rollback")
    /\ UNCHANGED <<mode, queried, repoVars, disk, dec, keys, op, loaded, panicked_at, error,
                   configuration, updateLocals, distanceLocals, answers>>

\* line 222: the expect() on the result of line 221 panics. Without a key
\* nothing was written; with one, the mappings before the failing one were.
WriteEncryptedFilesFails(p) ==
    /\ pc[p] = "u_encrypt"
    /\ LET key == read_encryption_key(keys, configuration[p])
           files == configuration[p].files_to_copy
       IN  IF key = NoKey THEN enc' = enc
           ELSE \E n \in 0..Len(files) :
                   /\ n < Len(files) \/ Len(files) = 0
                   /\ enc' = write_encrypted_files(enc, files, head.hash, key, n)
    /\ panicked_at' = [panicked_at EXCEPT ![p] = pc[p]]
    /\ error' = [error EXCEPT ![p] =
                     IF read_encryption_key(keys, configuration[p]) = NoKey
                     THEN "MissingProjectKey" ELSE "Err"]
    /\ Goto(p, "panicked")
    /\ UNCHANGED <<mode, queried, repoVars, disk, dec, keys, op, loaded, configuration,
                   updateLocals, distanceLocals, events, answers>>

\* RollBack, going back to the starting branch but not to the starting hash.
RollBackToTip(p) ==
    /\ pc[p] = "u_rollback"
    /\ head' = check_out_branch(local, starting_branch[p])
    /\ Log(p, "rollback")
    /\ Goto(p, "u_apply")
    /\ UNCHANGED <<mode, queried, local, remote, projectVars, op, loaded, panicked_at, error,
                   configuration, updateLocals, distanceLocals, answers>>

\* line 227: check_out_branch_at_revision(starting_branch, starting_ref)
RollBack(p) ==
    /\ pc[p] = "u_rollback"
    /\ head' = check_out_branch_at_revision(starting_branch[p], starting_ref[p])
    /\ Log(p, "rollback")
    /\ Goto(p, "u_apply")
    /\ UNCHANGED <<mode, queried, local, remote, projectVars, op, loaded, panicked_at, error,
                   configuration, updateLocals, distanceLocals, answers>>

\* ------------------------------------------------------ apply_configuration
RECURSIVE decrypt_files_appending(_, _, _, _, _)
\* decrypt_files, writing each plaintext after what the destination holds.
decrypt_files_appending(decFiles, encFiles, files, key, n) ==
    IF n = 0 THEN decFiles
    ELSE LET before == decrypt_files_appending(decFiles, encFiles, files, key, n - 1)
             plain == decrypt(encFiles[files[n].destination], key)
         IN  [before EXCEPT ![files[n].destination] =
                                IF @ = Absent THEN plain ELSE (@ + plain) % Modulus]

\* ApplyConfiguration, appending to destination files that exist.
ApplyConfigurationAppending(p) ==
    /\ pc[p] \in {"u_apply", "a_apply"}
    /\ LET key == read_encryption_key(keys, configuration[p])
           files == configuration[p].files_to_copy
       IN  /\ key # NoKey
           /\ first_missing(enc, files) = Len(files) + 1
           /\ dec' = decrypt_files_appending(dec, enc, files, key, Len(files))
    /\ Log(p, "apply")
    /\ Goto(p, "done")
    /\ UNCHANGED <<mode, queried, repoVars, disk, enc, keys, op, loaded,
                   panicked_at, error, configuration, updateLocals,
                   distanceLocals, answers>>

\* lines 122-129 (called from line 233 and from configure::apply):
\* decrypt_files_for_configuration succeeds; every mapping's .enc file is
\* decrypted into its destination, in list order.
ApplyConfiguration(p) ==
    /\ pc[p] \in {"u_apply", "a_apply"}
    /\ LET key == read_encryption_key(keys, configuration[p])
           files == configuration[p].files_to_copy
       IN  /\ key # NoKey
           /\ first_missing(enc, files) = Len(files) + 1
           /\ dec' = decrypt_files(dec, enc, files, key, Len(files))
    /\ Log(p, "apply")
    /\ Goto(p, "done")
    /\ UNCHANGED <<mode, queried, repoVars, disk, enc, keys, op, loaded, panicked_at, error,
                   configuration, updateLocals, distanceLocals, answers>>

RECURSIVE decrypt_present_files(_, _, _, _, _)
\* decrypt_files, passing over the mappings whose .enc file is absent.
decrypt_present_files(decFiles, encFiles, files, key, n) ==
    IF n = 0 THEN decFiles
    ELSE LET before == decrypt_present_files(decFiles, encFiles, files, key, n - 1)
         IN  IF encFiles[files[n].destination] = Absent THEN before
             ELSE [before EXCEPT ![files[n].destination] =
                                    decrypt(encFiles[files[n].destination], key)]

\* ApplyConfigurationFails, going through the whole list before it reports
\* a missing .enc file.
ApplyConfigurationFailsAtEnd(p) ==
    /\ pc[p] \in {"u_apply", "a_apply"}
    /\ LET key == read_encryption_key(keys, configuration[p])
           files == configuration[p].files_to_copy
       IN  /\ key # NoKey
           /\ first_missing(enc, files) <= Len(files)
           /\ dec' = decrypt_present_files(dec, enc, files, key, Len(files))
    /\ error' = [error EXCEPT ![p] = "EncryptedFileMissing"]
    /\ panicked_at' = [panicked_at EXCEPT ![p] = pc[p]]
    /\ Goto(p, "panicked")
    /\ UNCHANGED <<mode, queried, repoVars, disk, enc, keys, op, loaded,
                   configuration, updateLocals, distanceLocals, events, answers>>

\* line 124: the expect() panics: no key (MissingProjectKey), a missing
\* .enc file (EncryptedFileMissing) or a failing read or write; the
\* mappings before the failing one have been decrypted and stay so.
ApplyConfigurationFails(p) ==
    /\ pc[p] \in {"u_apply", "a_apply"}
    /\ LET key == read_encryption_key(keys, configuration[p])
           files == configuration[p].files_to_copy
           missing == first_missing(enc, files)
       IN  IF key = NoKey
           THEN /\ dec' = dec
                /\ error' = [error EXCEPT ![p] = "MissingProjectKey"]
           ELSE \E n \in 0..(missing - 1) :
                   /\ n < Len(files) \/ Len(files) = 0
                   /\ dec' = decrypt_files(dec, enc, files, key, n)
                   /\ error' = [error EXCEPT ![p] =
                                   IF n + 1 = missing /\ missing <= Len(files)
                                   THEN "EncryptedFileMissing"
                                   ELSE "DataDecryptionError"]
    /\ panicked_at' = [panicked_at EXCEPT ![p] = pc[p]]
    /\ Goto(p, "panicked")
    /\ UNCHANGED <<mode, queried, repoVars, disk, enc, keys, op, loaded, configuration,
                   updateLocals, distanceLocals, events, answers>>

\* ------------------------------------------------------ setup_configuration
\* lines 268-279: prompt_for_project_name_if_needed with the name entered
prompt_for_project_name_if_needed(c, project_name) ==
    IF ~needs_project_name(c) THEN c
    ELSE [c EXCEPT !.project_name = project_name]

\* line 246
PromptForProjectName(p) ==
    /\ pc[p] = "i_name"
    /\ \E project_name \in ProjectNames :
          /\ configuration' =
                [configuration EXCEPT
                    ![p] = prompt_for_project_name_if_needed(@, project_name)]
          /\ IF needs_project_name(configuration[p])
             THEN Ask(p, Answer("name", project_name, "", ""))
             ELSE answers' = answers
    /\ Goto(p, "i_branch")
    /\ UNCHANGED <<mode, queried, repoVars, projectVars, op, loaded, panicked_at, error, updateLocals,
                   distanceLocals, events>>

\* set_latest_hash_if_needed, without the test of needs_pinned_hash.
set_latest_hash_always(c, remoteTips) ==
    [c EXCEPT !.pinned_hash = get_secrets_latest_hash(remoteTips, c.branch)]

\* lines 309-319: set_latest_hash_if_needed
set_latest_hash_if_needed(c, remoteTips) ==
    IF ~needs_pinned_hash(c) THEN c
    ELSE [c EXCEPT !.pinned_hash = get_secrets_latest_hash(remoteTips, c.branch)]

\* line 252
SetLatestHash(p) ==
    /\ pc[p] = "i_hash"
    /\ configuration' = [configuration EXCEPT
                            ![p] = set_latest_hash_if_needed(@, remote)]
    /\ Goto(p, "i_files")
    /\ UNCHANGED <<mode, queried, repoVars, projectVars, op, loaded, panicked_at, error, updateLocals,
                   distanceLocals, events, answers>>

\* prompt_to_add_file, without the lookup of the repository and of the
\* source path.
prompt_to_add_file_unchecked(source, destination, found) ==
    <<[source |-> source, destination |-> destination]>>

\* lines 342-370: prompt_to_add_file with the paths entered; found tells
\* whether find_secrets_repo succeeded. The result is a sequence: empty for
\* None, the File for Some.
prompt_to_add_file(source, destination, found) ==
    IF ~found THEN << >>
    ELSE IF source \notin Sources THEN << >>
    ELSE <<[source |-> source, destination |-> destination]>>

\* What the user can enter at the prompts of prompt_to_add_file: two
\* files, a source path that does not exist, and a path entered while no
\* secrets repository is found. The destination is asked for only after
\* the source was found to exist.
CandidateFiles ==
    {[source |-> f.source, destination |-> f.destination, found |-> TRUE] :
        f \in {FileB, FileC}}
    \cup {[source |-> "nowhere", destination |-> "", found |-> TRUE],
          [source |-> "s1", destination |-> "", found |-> FALSE]}

\* Number of candidates a run has been asked for.
Candidates(p) ==
    Cardinality({i \in 1..Len(answers[p]) : answers[p][i][1] = "file"})

\* lines 330-335: the user confirms, one candidate is asked for and pushed
\* if it is accepted.
PromptToAddFile(p) ==
    /\ pc[p] = "i_files"
    /\ Candidates(p) < MaxFiles
    /\ \E c \in CandidateFiles :
          /\ configuration' =
                [configuration EXCEPT
                    ![p].files_to_copy =
                        @ \o prompt_to_add_file(c.source, c.destination, c.found)]
          /\ Ask(p, Answer("file", c.source, c.destination,
                           IF c.found THEN "found" ELSE "no repository"))
    /\ UNCHANGED <<mode, queried, repoVars, projectVars, op, loaded, pc, panicked_at, error,
                   updateLocals, distanceLocals, events>>

\* line 330: the user declines, the loop ends.
DeclineToAddFile(p) ==
    /\ pc[p] = "i_files"
    /\ Ask(p, Answer("no more files", "", "", ""))
    /\ Goto(p, "i_save")
    /\ UNCHANGED <<mode, queried, repoVars, projectVars, op, loaded, panicked_at, error, configuration,
                   updateLocals, distanceLocals, events>>

\* line 260: save_configuration(&configuration)
SaveSetup(p) ==
    /\ pc[p] = "i_save"
    /\ disk' = configuration[p]
    /\ Log(p, "save")
    /\ Goto(p, "i_key")
    /\ UNCHANGED <<mode, queried, repoVars, enc, dec, keys, op, loaded, panicked_at, error,
                   configuration, updateLocals, distanceLocals, answers>>

\* ReadKey, generating a key whatever the lookup returned.
ReadKeyIgnored(p) ==
    /\ pc[p] = "i_key"
    /\ Goto(p, "i_genkey")
    /\ UNCHANGED <<mode, queried, repoVars, projectVars, op, loaded, panicked_at, error, configuration,
                   updateLocals, distanceLocals, events, answers>>

\* line 263: read_encryption_key(&configuration).unwrap() == None
ReadKey(p) ==
    /\ pc[p] = "i_key"
    /\ Goto(p, IF read_encryption_key(keys, configuration[p]) = NoKey
               THEN "i_genkey" ELSE "done")
    /\ UNCHANGED <<mode, queried, repoVars, projectVars, op, loaded, panicked_at, error, configuration,
                   updateLocals, distanceLocals, events, answers>>

\* line 264: generate_encryption_key(&configuration)
GenerateKey(p) ==
    /\ pc[p] = "i_genkey"
    /\ configuration[p].project_name \in DOMAIN keys
    /\ \E key \in Keys :
          keys' = [keys EXCEPT ![configuration[p].project_name] = key]
    /\ Log(p, "genkey")
    /\ Goto(p, "done")
    /\ UNCHANGED <<mode, queried, repoVars, disk, enc, dec, op, loaded, panicked_at, error,
                   configuration, updateLocals, distanceLocals, answers>>

\* ------------------------------------------------------------ specification
Next ==
    \E p \in Procs :
        \/ Start(p)
        \/ Panic(p)
        \/ CaptureStartingBranch(p)
        \/ CaptureStartingRef(p)
        \/ FetchLatest(p)
        \/ PromptForBranch(p)
        \/ GetStatus(p)
        \/ ShouldContinue(p)
        \/ DistanceCurrentBranch(p)
        \/ DistanceCurrentHash(p)
        \/ DistanceCheckOut(p)
        \/ DistanceLatestHash(p)
        \/ DistanceBetween(p)
        \/ DistanceRestore(p)
        \/ ConfirmLatest(p)
        \/ GetLatestCommitHash(p)
        \/ CheckOutLatest(p)
        \/ SaveConfiguration(p)
        \/ WriteEncryptedFiles(p)
        \/ WriteEncryptedFilesFails(p)
        \/ RollBack(p)
        \/ ApplyConfiguration(p)
        \/ ApplyConfigurationFails(p)
        \/ PromptForProjectName(p)
        \/ SetLatestHash(p)
        \/ PromptToAddFile(p)
        \/ DeclineToAddFile(p)
        \/ SaveSetup(p)
        \/ ReadKey(p)
        \/ GenerateKey(p)

Spec == Init /\ [][Next]_vars

\* ------------------------------------------------------------- properties
\* The branch and hash a run of update captured on lines 132-135.
Baseline(p) == [branch |-> starting_branch[p], hash |-> starting_ref[p]]

\* The source whose plaintext ends up behind the destination of mapping i:
\* that of the last mapping of the list with the same destination.
LastSourceFor(files, i) ==
    LET last == CHOOSE j \in i..Len(files) :
                    /\ files[j].destination = files[i].destination
                    /\ \A k \in (j + 1)..Len(files) :
                          files[k].destination # files[i].destination
    IN  files[last].source

\* C1: when a run of update ends by success or by the user declining at the
\* drift prompt, the secrets repository is checked out at the branch and
\* hash the run captured first.
C1_RollbackInvariant ==
    \A p \in Procs :
        (op[p] = "update" /\ pc[p] \in {"done", "returned"})
            => head = Baseline(p)

\* A run that accepted the latest commit on another branch or hash than the
\* starting one, and ended successfully.
C1_Witness ==
    \E p \in Procs :
        /\ op[p] = "update" /\ pc[p] = "done" /\ adopt[p] = "yes"
        /\ configuration[p].branch # starting_branch[p]
        /\ configuration[p].pinned_hash # starting_ref[p]

\* C2: once the user has accepted the latest commit C of configuration.branch,
\* the run's pinned_hash is C; once saved, the persisted pinned_hash is C;
\* once re-encrypted, every mapping's .enc file is the encryption of the
\* plaintext at C; once applied, every destination holds that plaintext.
C2_UpdateToLatest ==
    \A p \in Procs :
        (op[p] = "update" /\ adopt[p] = "yes") =>
            LET C == remote[configuration[p].branch]
                files == configuration[p].files_to_copy
                key == read_encryption_key(keys, configuration[p])
            IN  /\ pc[p] \in {"u_save", "u_encrypt", "u_rollback", "u_apply", "done"}
                      => (distance[p] > 0 /\ configuration[p].pinned_hash = C)
                /\ pc[p] \in {"u_encrypt", "u_rollback", "u_apply", "done"}
                      => (disk.pinned_hash = C /\ disk.branch = configuration[p].branch)
                /\ pc[p] \in {"u_rollback", "u_apply", "done"}
                      => \A i \in 1..Len(files) :
                            enc[files[i].destination] =
                                encrypt(Content(C, LastSourceFor(files, i)), key)
                /\ pc[p] = "done"
                      => \A i \in 1..Len(files) :
                            dec[files[i].destination] =
                                Content(C, LastSourceFor(files, i))

\* A successful accepted run with files, whose latest commit is not the one
\* the clone started on.
C2_Witness ==
    \E p \in Procs :
        /\ op[p] = "update" /\ pc[p] = "done" /\ adopt[p] = "yes"
        /\ Len(configuration[p].files_to_copy) = 2
        /\ disk.pinned_hash # starting_ref[p]
        /\ disk.pinned_hash # loaded[p].pinned_hash

\* C3: the user is asked only when distance > 0; when the distance check is
\* over and the latest commit was not accepted, pinned_hash is the one the
\* run was entered with, no forward checkout was made and the repository is
\* checked out where it was before the check.
C3_PinnedHashFrame ==
    \A p \in Procs :
        /\ adopt[p] # "none" => distance[p] > 0
        /\ (op[p] = "update" /\ adopt[p] # "yes"
              /\ pc[p] \in {"u_confirm", "u_save", "u_encrypt", "u_rollback",
                             "u_apply", "done"})
            => /\ configuration[p].pinned_hash = loaded[p].pinned_hash
               /\ \A i \in 1..Len(events[p]) : events[p][i] # "forward"
               /\ pc[p] \in {"u_confirm", "u_save", "u_encrypt"}
                     => head = Baseline(p)

\* The user declined after a distance check that moved the clone to another
\* branch.
C3_Witness ==
    \E p \in Procs :
        /\ op[p] = "update" /\ pc[p] = "u_save" /\ adopt[p] = "no"
        /\ configuration[p].branch # starting_branch[p]
        /\ latest_hash[p] # starting_ref[p]

\* C4: when the user declines at the drift prompt, the persisted
\* configuration is the one the run was entered with, no .enc file was
\* written, nothing was decrypted, no checkout was made and the repository
\* is at its baseline.
C4_DeclineDrift ==
    \A p \in Procs :
        (op[p] = "update" /\ pc[p] = "returned") =>
            /\ status[p] \in {"Ahead", "Behind"}
            /\ disk = loaded[p]
            /\ \A d \in Destinations :
                  enc[d] \in {Absent, StaleCipher} /\ dec[d] = Absent
            /\ events[p] = <<"fetch">>
            /\ head = Baseline(p)

\* The user declined after selecting another branch than the persisted one.
C4_Witness ==
    \E p \in Procs :
        /\ op[p] = "update" /\ pc[p] = "returned"
        /\ configuration[p].branch # loaded[p].branch
        /\ loaded[p].branch # ""

\* The lines of update_configuration from the fetch to the checkout of the
\* latest hash, the distance check's lines included.
StepsThroughDistanceCheck ==
    {"u_fetch", "u_prompt", "u_status", "d_branch", "d_hash", "d_checkout",
     "d_latest", "d_distance", "d_restore", "u_latest", "u_forward"}

\* C5: when a run of update panics on any line up to and including the
\* distance check and the checkout of the latest hash, the secrets
\* repository is checked out at the baseline the run captured.
C5_FailureLeavesBaseline ==
    \A p \in Procs :
        (op[p] = "update" /\ pc[p] = "panicked"
          /\ panicked_at[p] \in StepsThroughDistanceCheck)
            => head = Baseline(p)

\* C6: when the re-encrypt step of update fails, the rollback checkout is
\* still made and the secrets repository ends at its baseline.
C6_RollbackAfterEncryptFailure ==
    \A p \in Procs :
        (op[p] = "update" /\ pc[p] = "panicked" /\ panicked_at[p] = "u_encrypt")
            => head = Baseline(p)

\* C7: whenever a run of update is at the re-encrypt step, the secrets
\* repository is checked out at configuration.branch, at the commit
\* configuration.pinned_hash.
C7_ReEncryptAtPinned ==
    \A p \in Procs :
        (op[p] = "update" /\ pc[p] = "u_encrypt")
            => head = [branch |-> configuration[p].branch,
                       hash |-> configuration[p].pinned_hash]

\* The lines of update_configuration before save_configuration (line 216).
LinesBeforeSave ==
    {"u_branch", "u_ref", "u_fetch", "u_prompt", "u_status", "u_continue",
     "d_branch", "d_hash", "d_checkout", "d_latest", "d_distance", "d_restore",
     "u_confirm", "u_latest", "u_forward", "u_save"}

\* Number of times e occurs in a run's effects.
Count(p, e) == Cardinality({i \in 1..Len(events[p]) : events[p][i] = e})

\* C8: as long as a run of update has not passed the distance check, and
\* when it panicked or returned before the save, the persisted
\* configuration is the one the run was entered with; a run saves at most
\* once.
C8_SinglePersistence ==
    \A p \in Procs :
        op[p] = "update" =>
            /\ (pc[p] \in LinesBeforeSave
                  \/ pc[p] = "returned"
                  \/ (pc[p] = "panicked" /\ panicked_at[p] \in LinesBeforeSave))
                => (disk = loaded[p] /\ Count(p, "save") = 0)
            /\ Count(p, "save") <= 1

\* A run that panicked in the distance check after another branch was
\* selected in memory.
C8_Witness ==
    \E p \in Procs :
        /\ op[p] = "update" /\ pc[p] = "panicked"
        /\ panicked_at[p] = "d_distance"
        /\ configuration[p].branch # loaded[p].branch
        /\ loaded[p].branch # ""

\* C9: after a successful run of update or init, the persisted pinned_hash
\* lies on the history of the persisted branch.
C9_PinnedOnBranch ==
    \A p \in Procs :
        (op[p] \in {"update", "init"} /\ pc[p] = "done")
            => OnBranch(local, remote, disk.pinned_hash, disk.branch)

\* The four final steps of update, in the order of the code.
FinalSteps == <<"save", "encrypt", "rollback", "apply">>

IsFinalStep(e) == \E i \in 1..Len(FinalSteps) : FinalSteps[i] = e

\* C10: the save, the writing of the .enc files, the rollback checkout and
\* the apply of a run of update happen in this order, each at most once;
\* the apply decrypts .enc files that this run wrote.
C10_FinalStepsOrder ==
    \A p \in Procs :
        op[p] = "update" =>
            LET done == SelectSeq(events[p], IsFinalStep)
                files == configuration[p].files_to_copy
                key == read_encryption_key(keys, configuration[p])
            IN  /\ Len(done) <= Len(FinalSteps)
                /\ done = SubSeq(FinalSteps, 1, Len(done))
                /\ pc[p] = "u_encrypt" => done = <<"save">>
                /\ pc[p] = "u_rollback" => done = <<"save", "encrypt">>
                /\ pc[p] = "u_apply" => done = <<"save", "encrypt", "rollback">>
                /\ pc[p] = "done" =>
                      /\ done = FinalSteps
                      /\ \A i \in 1..Len(files) :
                            /\ enc[files[i].destination] \notin {Absent, StaleCipher}
                            /\ dec[files[i].destination] =
                                  decrypt(enc[files[i].destination], key)

\* A successful run of update with files, over .enc files of an earlier run.
C10_Witness ==
    \E p \in Procs :
        /\ op[p] = "update" /\ pc[p] = "done"
        /\ Len(configuration[p].files_to_copy) = 2
        /\ enc["d2"] = StaleCipher
        /\ head # [branch |-> configuration[p].branch,
                   hash |-> configuration[p].pinned_hash]

\* C11: when configure_file_distance_behind_secrets_repo has returned, the
\* secrets repository is checked out at the branch and hash it had on
\* entry, the configuration is the one passed in, and the value returned
\* is the number of commits from pinned_hash to the tip that was read while
\* the target branch was checked out.
C11_DistanceBrackets ==
    \A p \in Procs :
        (op[p] = "update" /\ pc[p] = "u_confirm") =>
            LET target == configuration[p].branch
            IN  /\ head = [branch |-> current_branch[p], hash |-> current_hash[p]]
                /\ head = Baseline(p)
                /\ configuration[p] = [loaded[p] EXCEPT !.branch = target]
                /\ latest_hash[p] = local[target]
                /\ distance[p] =
                      Cardinality({c \in Commits :
                                      /\ c \in Ancestors(local[target])
                                      /\ c \notin Ancestors(loaded[p].pinned_hash)})
                /\ events[p] = <<"fetch", "checkout", "restore">>

\* The function returned a distance above 0 after it had moved the clone to
\* another branch and hash.
C11_Witness ==
    \E p \in Procs :
        /\ op[p] = "update" /\ pc[p] = "u_confirm"
        /\ configuration[p].branch # starting_branch[p]
        /\ latest_hash[p] # starting_ref[p]
        /\ distance[p] > 0

\* -------------------------------------- apply, run once and then once more
\* No run has started.
RunsIdle ==
    /\ op = [p \in Procs |-> "none"]
    /\ pc = [p \in Procs |-> "idle"]
    /\ panicked_at = [p \in Procs |-> ""]
    /\ error = [p \in Procs |-> ""]
    /\ loaded = [p \in Procs |-> DefaultConfiguration]
    /\ configuration = [p \in Procs |-> DefaultConfiguration]
    /\ starting_branch = [p \in Procs |-> ""]
    /\ starting_ref = [p \in Procs |-> EmptyHash]
    /\ status = [p \in Procs |-> "none"]
    /\ distance = [p \in Procs |-> 0]
    /\ adopt = [p \in Procs |-> "none"]
    /\ latest_commit_hash = [p \in Procs |-> EmptyHash]
    /\ current_branch = [p \in Procs |-> ""]
    /\ current_hash = [p \in Procs |-> EmptyHash]
    /\ latest_hash = [p \in Procs |-> EmptyHash]
    /\ events = [p \in Procs |-> << >>]
    /\ answers = [p \in Procs |-> << >>]
    /\ queried = [p \in Procs |-> << >>]

\* The clone with every branch on the root commit, trunk checked out.
RootClone ==
    /\ local = [b \in Branches |-> 1]
    /\ remote = [b \in Branches |-> 1]
    /\ head = [branch |-> "trunk", hash |-> 1]

\* A project whose .enc files are each absent, left by an earlier run, or
\* the encryption of a source of the root commit; nothing is decrypted yet.
InitApply ==
    /\ mode = "sequential"
    /\ RootClone
    /\ disk \in InitialConfigurations
    /\ disk.pinned_hash \in {EmptyHash, 1}
    /\ keys \in [ProjectNames -> {NoKey, FirstKey}]
    /\ enc \in [Destinations ->
                   {Absent, StaleCipher, encrypt(Content(1, "s2"), FirstKey)}]
    /\ dec = [d \in Destinations |-> Absent]
    /\ RunsIdle

NextApply ==
    \E p \in Procs :
        \/ StartCommand(p, "apply")
        \/ ApplyConfiguration(p)
        \/ ApplyConfigurationFails(p)

SpecApply == InitApply /\ [][NextApply]_vars

\* Mapping i is the first of the list whose .enc file is absent.
FirstAbsentAt(files, i) ==
    /\ enc[files[i].destination] = Absent
    /\ \A j \in 1..(i - 1) : enc[files[j].destination] # Absent

\* C12: when apply runs with a key and the first mapping whose .enc file is
\* absent is at position i, the run panics, with EncryptedFileMissing
\* unless a mapping before i failed to decrypt; no destination of position
\* i or later is written; with EncryptedFileMissing the destinations of the
\* positions before i hold their decrypted files.
C12_MissingEncryptedFile ==
    [][\A p \in Procs :
        (pc[p] \in {"a_apply", "u_apply"} /\ pc'[p] # pc[p]) =>
            LET files == configuration[p].files_to_copy
                key == read_encryption_key(keys, configuration[p])
            IN  \A i \in 1..Len(files) :
                  (key # NoKey /\ FirstAbsentAt(files, i)) =>
                     /\ pc'[p] = "panicked"
                     /\ error'[p] \in {"EncryptedFileMissing", "DataDecryptionError"}
                     /\ i = 1 => error'[p] = "EncryptedFileMissing"
                     /\ \A j \in i..Len(files) :
                           dec'[files[j].destination] = dec[files[j].destination]
                     /\ error'[p] = "EncryptedFileMissing" =>
                           \A j \in 1..(i - 1) :
                              dec'[files[j].destination] =
                                  decrypt(enc[files[j].destination], key)
      ]_vars

\* Apply stopped with EncryptedFileMissing at the second mapping; the first
\* destination is written, the second is not.
C12_Witness ==
    \E p \in Procs :
        /\ op[p] = "apply" /\ pc[p] = "panicked"
        /\ error[p] = "EncryptedFileMissing"
        /\ Len(configuration[p].files_to_copy) = 2
        /\ dec["d1"] # Absent /\ dec["d2"] = Absent /\ enc["d2"] = Absent

\* C13: after a successful apply, whatever an earlier apply did, every
\* destination of a mapping holds the decryption of its .enc file and no
\* other destination exists: the result of one apply from a clean project.
C13_ApplyIdempotent ==
    \A p \in Procs :
        (op[p] = "apply" /\ pc[p] = "done") =>
            LET files == configuration[p].files_to_copy
                key == read_encryption_key(keys, configuration[p])
            IN  \A d \in Destinations :
                  dec[d] = IF \E i \in 1..Len(files) : files[i].destination = d
                           THEN decrypt(enc[d], key)
                           ELSE Absent

\* A successful apply after an apply that stopped after its first mapping.
C13_Witness ==
    /\ op[1] = "apply" /\ pc[1] = "panicked" /\ error[1] = "DataDecryptionError"
    /\ op[2] = "apply" /\ pc[2] = "done"
    /\ configuration[2].files_to_copy = <<FileA, FileB>>
    /\ enc["d1"] # enc["d2"]

\* ------------------------------------------------ frame of update and init
\* C14: in every run of update the project_name and the files_to_copy of
\* the configuration in memory equal those of the configuration passed in,
\* and once the run has saved, so do those of the persisted configuration,
\* which is the one in memory that the apply step uses.
C14_UpdateFrame ==
    \A p \in Procs :
        op[p] = "update" =>
            /\ configuration[p].project_name = loaded[p].project_name
            /\ configuration[p].files_to_copy = loaded[p].files_to_copy
            /\ Count(p, "save") > 0 =>
                  /\ disk.project_name = loaded[p].project_name
                  /\ disk.files_to_copy = loaded[p].files_to_copy
                  /\ disk = configuration[p]

\* An update that changed both the branch and the pinned hash of a
\* configuration with two mappings, saved it and applied it.
C14_Witness ==
    \E p \in Procs :
        /\ op[p] = "update" /\ pc[p] = "done"
        /\ events[p][Len(events[p])] = "apply"
        /\ configuration[p].branch # loaded[p].branch
        /\ configuration[p].pinned_hash # loaded[p].pinned_hash
        /\ Len(loaded[p].files_to_copy) = 2

\* The answers a run of init got at the prompt named.
AnswersTo(p, prompt) == SelectSeq(answers[p], LAMBDA a : a[1] = prompt)

\* C15: once init is past line 252, a project_name that was set on entry is
\* unchanged and was not asked for; a pinned_hash that was set on entry is
\* unchanged, one that was empty is the latest hash of the selected branch;
\* the branch was asked for once and is the selection, whatever it was.
C15_InitFillsMissing ==
    \A p \in Procs :
        (op[p] = "init" /\ pc[p] \in {"i_files", "i_save", "i_key", "i_genkey", "done"}) =>
            /\ loaded[p].project_name # "" =>
                  /\ configuration[p].project_name = loaded[p].project_name
                  /\ AnswersTo(p, "name") = << >>
            /\ loaded[p].project_name = "" =>
                  /\ Len(AnswersTo(p, "name")) = 1
                  /\ configuration[p].project_name = AnswersTo(p, "name")[1][2]
            /\ loaded[p].pinned_hash # EmptyHash =>
                  configuration[p].pinned_hash = loaded[p].pinned_hash
            /\ loaded[p].pinned_hash = EmptyHash =>
                  configuration[p].pinned_hash = remote[configuration[p].branch]
            /\ Len(AnswersTo(p, "branch")) = 1
            /\ configuration[p].branch = AnswersTo(p, "branch")[1][2]

\* An init entered with name, branch and pinned hash set, that selected the
\* other branch, whose latest hash is not the pinned one.
C15_Witness ==
    \E p \in Procs :
        /\ op[p] = "init" /\ pc[p] = "done"
        /\ loaded[p].project_name # ""
        /\ loaded[p].branch # ""
        /\ configuration[p].branch # loaded[p].branch
        /\ loaded[p].pinned_hash # EmptyHash
        /\ remote[configuration[p].branch] # loaded[p].pinned_hash

\* C16: a finished init leaves a key for the project of the configuration;
\* from the key lookup on, the configuration has been saved and is the one
\* on disk; the key store changes only in the step of line 264, taken when
\* the project has no key, so a key that exists is never replaced.
C16_KeyAfterInit ==
    /\ [](\A p \in Procs :
            op[p] = "init" =>
                /\ pc[p] = "done" =>
                      read_encryption_key(keys, configuration[p]) # NoKey
                /\ pc[p] \in {"i_key", "i_genkey", "done"} =>
                      /\ events[p][1] = "save"
                      /\ disk = configuration[p]
                /\ pc[p] = "i_genkey" =>
                      read_encryption_key(keys, configuration[p]) = NoKey)
    /\ [][/\ \A n \in ProjectNames : keys[n] # NoKey => keys'[n] = keys[n]
          /\ keys' # keys =>
                \E p \in Procs : /\ op[p] = "init" /\ pc[p] = "i_genkey"
                                 /\ pc'[p] = "done"
                                 /\ events'[p] = <<"save", "genkey">>]_vars

\* An init that finished without generating a key, the project having one.
C16_Witness ==
    \E p \in Procs :
        /\ op[p] = "init" /\ pc[p] = "done"
        /\ events[p] = <<"save">>
        /\ keys[configuration[p].project_name] = FirstKey

\* The candidates of a run of init that were accepted, as File values.
AcceptedFiles(p) ==
    LET accepted == SelectSeq(answers[p],
                              LAMBDA a : /\ a[1] = "file" /\ a[4] = "found"
                                         /\ a[2] \in Sources)
    IN  [i \in 1..Len(accepted) |->
            [source |-> accepted[i][2], destination |-> accepted[i][3]]]

\* C20: from the loop of prompt_to_add_files on, files_to_copy is the list
\* on entry followed by the accepted candidates in the order entered; a
\* candidate that is not accepted leaves the run in the loop; the run is
\* past the loop exactly when its last answer is the first refusal.
C20_FileLoopAppends ==
    \A p \in Procs :
        (op[p] = "init" /\ pc[p] \in {"i_files", "i_save", "i_key", "i_genkey", "done"}) =>
            /\ configuration[p].files_to_copy =
                  loaded[p].files_to_copy \o AcceptedFiles(p)
            /\ Len(AnswersTo(p, "no more files")) <= 1
            /\ pc[p] = "i_files" <=> AnswersTo(p, "no more files") = << >>
            /\ pc[p] # "i_files" =>
                  answers[p][Len(answers[p])][1] = "no more files"

\* An init entered with two mappings, that was given a source path that
\* does not exist and then a file, and left the loop.
C20_Witness ==
    \E p \in Procs :
        /\ op[p] = "init" /\ pc[p] = "i_save"
        /\ Len(loaded[p].files_to_copy) = 2
        /\ Len(AnswersTo(p, "file")) = 2
        /\ AnswersTo(p, "file")[1][2] = "nowhere"
        /\ AcceptedFiles(p) = <<FileB>>
        /\ configuration[p].files_to_copy = loaded[p].files_to_copy \o <<FileB>>

\* ------------------------------------------- the predicates of lines 21-37
\* A pinned_hash that is not empty and names no commit: a string of blanks.
BlankHash == MaxCommit + 1

\* The values a configuration file can hold, left by the tool or written by
\* hand: every field empty, blank or set.
ConfigurationValues ==
    [project_name : {"", " "} \cup ProjectNames,
     branch : {"", " "} \cup Branches,
     pinned_hash : {EmptyHash, BlankHash} \cup Commits,
     files_to_copy : FileLists \cup {<<FileA>>}]

InitPredicates ==
    /\ mode = "sequential"
    /\ RootClone
    /\ disk \in ConfigurationValues
    /\ keys = [n \in ProjectNames |-> NoKey]
    /\ enc = [d \in Destinations |-> Absent]
    /\ dec = [d \in Destinations |-> Absent]
    /\ RunsIdle

\* lines 22-36: run p loads the configuration and evaluates the four
\* predicates on it.
EvaluatePredicates(p) ==
    /\ pc[p] = "idle"
    /\ \A q \in Procs : q < p => pc[q] # "idle"
    /\ op' = [op EXCEPT ![p] = "query"]
    /\ configuration' = [configuration EXCEPT ![p] = disk]
    /\ loaded' = [loaded EXCEPT ![p] = disk]
    /\ queried' = [queried EXCEPT ![p] = <<needs_project_name(disk),
                                           needs_branch(disk),
                                           needs_pinned_hash(disk),
                                           is_empty(disk)>>]
    /\ Goto(p, "done")
    /\ UNCHANGED <<mode, repoVars, projectVars, panicked_at, error, updateLocals,
                   distanceLocals, events, answers>>

NextPredicates == \E p \in Procs : EvaluatePredicates(p)

SpecPredicates == InitPredicates /\ [][NextPredicates]_vars

\* The values that differ from the default one in exactly one field.
SingleFieldChanges ==
    {c \in ConfigurationValues :
        Cardinality({f \in DOMAIN c : c[f] # DefaultConfiguration[f]}) = 1}

\* C17: for every configuration value, each needs_ predicate is true
\* exactly when its field is the empty string (false for a blank one),
\* is_empty is true exactly when the three are true and files_to_copy is
\* empty, and is_empty is false for every value that differs from the
\* default in a single field.
C17_UnsetPredicates ==
    \A p \in Procs :
        op[p] = "query" =>
            LET c == configuration[p]
                q == queried[p]
            IN  /\ q[1] <=> c.project_name = ""
                /\ q[2] <=> c.branch = ""
                /\ q[3] <=> c.pinned_hash = EmptyHash
                /\ c.project_name = " " => ~q[1]
                /\ c.branch = " " => ~q[2]
                /\ c.pinned_hash = BlankHash => ~q[3]
                /\ q[4] <=> (q[1] /\ q[2] /\ q[3] /\ c.files_to_copy = << >>)
                /\ c \in SingleFieldChanges => ~q[4]

\* The predicates evaluated on a configuration whose only non-default
\* field is a list of one mapping.
C17_Witness ==
    \E p \in Procs :
        /\ op[p] = "query"
        /\ configuration[p] = [DefaultConfiguration EXCEPT !.files_to_copy = <<FileA>>]
        /\ queried[p] = <<TRUE, TRUE, TRUE, FALSE>>

\* --------------------------------------------- two runs of update at once
\* What is checked out before either run starts.
InitialHead == [branch |-> "trunk", hash |-> 1]

\* A project pinned to the root commit of trunk, its clone at that commit,
\* both branches fetched and ahead of it, the project key in the store.
InitConcurrent ==
    /\ mode = "interleaved"
    /\ local = [b \in Branches |-> IF b = "trunk" THEN 3 ELSE 2]
    /\ remote = local
    /\ head = InitialHead
    /\ disk = [project_name |-> "app", branch |-> "trunk", pinned_hash |-> 1,
               files_to_copy |-> <<FileA, FileB>>]
    /\ keys = [n \in ProjectNames |-> FirstKey]
    /\ enc = [d \in Destinations |-> Absent]
    /\ dec = [d \in Destinations |-> Absent]
    /\ RunsIdle

\* The steps of update, each gateway call atomic, of either run in any
\* order.
NextConcurrent ==
    \E p \in Procs :
        \/ StartCommand(p, "update")
        \/ CaptureStartingBranch(p)
        \/ CaptureStartingRef(p)
        \/ FetchLatest(p)
        \/ PromptForBranch(p)
        \/ GetStatus(p)
        \/ ShouldContinue(p)
        \/ DistanceCurrentBranch(p)
        \/ DistanceCurrentHash(p)
        \/ DistanceCheckOut(p)
        \/ DistanceLatestHash(p)
        \/ DistanceBetween(p)
        \/ DistanceRestore(p)
        \/ ConfirmLatest(p)
        \/ GetLatestCommitHash(p)
        \/ CheckOutLatest(p)
        \/ SaveConfiguration(p)
        \/ WriteEncryptedFiles(p)
        \/ RollBack(p)
        \/ ApplyConfiguration(p)

SpecConcurrent == InitConcurrent /\ [][NextConcurrent]_vars

\* C18: with two interleaved runs of update, once both have finished the
\* clone is at the branch and hash that one of them captured on lines
\* 132-135, so whenever it is not where it was before the runs, a run had
\* captured a checkout of the other run as its baseline; the witness shows
\* that this happens.
C18_ConcurrentBaseline ==
    (\A p \in Procs : op[p] = "update" /\ pc[p] = "done") =>
        /\ \E p \in Procs : head = Baseline(p)
        /\ head # InitialHead => \E p \in Procs : Baseline(p) # InitialHead

\* Both runs finished; the second captured the branch the first had checked
\* out for its distance check, and the clone is left there.
C18_Witness ==
    /\ \A p \in Procs : op[p] = "update" /\ pc[p] = "done"
    /\ Baseline(1) = InitialHead
    /\ Baseline(2) # InitialHead
    /\ head = Baseline(2)
    /\ head # InitialHead

\* ------------------------------------------- the commit adopted by update
\* C19: in every run of update in which the user accepted the latest
\* secrets, the hash stored into pinned_hash on line 209 is the hash that
\* the distance check read on line 388 and measured the distance against.
C19_AdoptedIsMeasured ==
    \A p \in Procs :
        (/\ op[p] = "update" /\ adopt[p] = "yes"
         /\ pc[p] \in {"u_save", "u_encrypt", "u_rollback", "u_apply", "done"}) =>
            configuration[p].pinned_hash = latest_hash[p]

====
